---- MODULE Spec2Model ----
(***************************************************************************)
(* Model of the offline render / encoding pipeline of the video header     *)
(* generator (App component: startRecording, togglePlayback, the           *)
(* configuration handlers, loadMedia, seekVideo and the WebCodecs encoder  *)
(* and muxer it drives).                                                   *)
(*                                                                         *)
(* Time is kept on an integer grid of 1/60 s ("ticks"): one tick is one    *)
(* frame interval at high quality and half a frame interval at standard    *)
(* quality, so every frame time frame / FPS is an integer number of ticks. *)
(* Durations, trim points and video positions are whole ticks.  Quotients  *)
(* the code computes in floating point (progress, timestamps) are kept as  *)
(* exact fractions, with JavaScript's NaN and Infinity for x / 0.          *)
(***************************************************************************)
EXTENDS Integers, Sequences, FiniteSets, TLC

\* ---------------------------------------------------------------- constants

StandardFPS == 30
HighFPS == 60
StandardBitrate == 10000000
HighBitrate == 20000000
MicrosPerSecond == 1000000
ProgressCadence == 5
Percent == 100
SeekTolerancePerCent == 1
ToleranceScale == 100
\* animation.bounceScale, in hundredths: its default and the slider's range.
Hundredths == 100
BounceScaleDefault == 108
BounceScaleMin == 100
BounceScaleMax == 130
\* kenBurns grows by 0.05 = 1 / 20 over the intro.
KenBurnsDivisor == 20
\* bDur = timing.t4 / 3
BounceStages == 3

\* The canvas, and the three equal panels of the collage.
CanvasWidth == 1920
CanvasHeight == 1080
PanelCount == 3
\* INITIAL_STATE: the xOffset of slots a..d.
XOffsetA == 50
XOffsetB == 20
XOffsetC == 50
XOffsetD == 80

\* One tick is 1 / TicksPerSecond seconds.
TicksPerSecond == HighFPS

\* ------------------------------------------------------------------- bounds

\* Duration, in ticks, of every uploaded video clip.
VideoDuration == 3
\* At most this many of the four slots hold a video at the same time.
MaxVideos == 2
\* The encoder buffers at most this many submitted frames before it emits.
MaxEncodeQueue == 1
\* How many steps the trim sliders are moved at most.
MaxTrim == 2
\* Length, in ticks, of every phase that is not skipped.
PhaseTicks == 3
\* The crop selector is dragged to this many evenly spaced positions.
OffsetSteps == 4

SlotIds == {"a", "b", "c", "d"}
PanelIds == {"b", "c", "d"}
TimingKeys == {"t1", "t2", "t3", "t4", "tHold", "t5", "t6", "t7"}
Qualities == {"standard", "high"}

\* Timing records a session works with (restored from storage or typed in).
TimingZero ==
  [t1 |-> 0, t2 |-> 0, t3 |-> 0, t4 |-> 0, tHold |-> 0, t5 |-> 0, t6 |-> 0, t7 |-> 0]
TimingShort ==
  [t1 |-> 1, t2 |-> 2, t3 |-> 1, t4 |-> 0, tHold |-> 1, t5 |-> 1, t6 |-> 0, t7 |-> 1]
TimingInputs == {TimingZero, TimingShort}

\* ------------------------------------------------------------ number values

\* A JavaScript number: a fraction n / d with d > 0, NaN or Infinity.
Num(n, d) == [k |-> "num", n |-> n, d |-> d]
NaN == [k |-> "nan", n |-> 0, d |-> 1]
Infinity == [k |-> "inf", n |-> 1, d |-> 1]

\* a / b for integers a >= 0, b >= 0, as JavaScript's division gives it.
JsDiv(a, b) ==
  IF b # 0 THEN Num(a, b)
  ELSE IF a = 0 THEN NaN ELSE Infinity

\* x * c for an integer c > 0.
JsTimes(x, c) ==
  IF x.k = "num" THEN Num(x.n * c, x.d) ELSE x

IsNumber(x) == x.k = "num"
NumLeq(x, y) == x.k = "num" /\ y.k = "num" /\ x.n * y.d <= y.n * x.d
NumLess(x, y) == x.k = "num" /\ y.k = "num" /\ x.n * y.d < y.n * x.d
NumEq(x, y) == x.k = "num" /\ y.k = "num" /\ x.n * y.d = y.n * x.d

\* a % b of JavaScript for b > 0: the sign follows the dividend.
JsRem(a, b) == IF a >= 0 THEN a % b ELSE -((-a) % b)

CeilDiv(a, b) == (a + b - 1) \div b
Min(a, b) == IF a <= b THEN a ELSE b
Max(a, b) == IF a >= b THEN a ELSE b
Abs(a) == IF a >= 0 THEN a ELSE -a

\* F(x), with x evaluated once: one statement's result handed to the next.
Bind(x, F(_)) == CHOOSE r \in {F(v) : v \in {x}} : TRUE

\* Arithmetic on fractions, kept in lowest terms; NaN for any other operand.
\* Every operand is evaluated once, as the operand of a JavaScript operator.
RECURSIVE Gcd(_, _)
Gcd(a, b) ==
  Bind(<< a, b >>, LAMBDA v : IF v[2] = 0 THEN v[1] ELSE Gcd(v[2], v[1] % v[2]))
Reduce(n, d) ==
  Bind(<< n, d, Gcd(Abs(n), d) >>,
       LAMBDA v : [k |-> "num", n |-> v[1] \div v[3], d |-> v[2] \div v[3]])
NumTimes(x, y) ==
  Bind(<< x, y >>,
       LAMBDA v : IF v[1].k = "num" /\ v[2].k = "num"
                  THEN Reduce(v[1].n * v[2].n, v[1].d * v[2].d)
                  ELSE NaN)
NumOver(x, y) ==
  Bind(<< x, y >>,
       LAMBDA v : IF v[1].k = "num" /\ v[2].k = "num" /\ v[2].n > 0
                  THEN Reduce(v[1].n * v[2].d, v[1].d * v[2].n)
                  ELSE NaN)
NumPlus(x, y) ==
  Bind(<< x, y >>,
       LAMBDA v : IF v[1].k = "num" /\ v[2].k = "num"
                  THEN Reduce(v[1].n * v[2].d + v[2].n * v[1].d, v[1].d * v[2].d)
                  ELSE NaN)
NumMinus(x, y) ==
  Bind(<< x, y >>,
       LAMBDA v : IF v[1].k = "num" /\ v[2].k = "num"
                  THEN Reduce(v[1].n * v[2].d - v[2].n * v[1].d, v[1].d * v[2].d)
                  ELSE NaN)

\* ------------------------------------------------------------------- state

VARIABLES
  state,                \* AppState: slots, timing, quality
  isPlaying,
  renderStatus,
  renderProgress,
  renderError,
  recordedUrl,
  pendingQuality,
  lastRecordedQuality,
  stopRequestedRef,
  hasVideoEncoder,      \* window.VideoEncoder is defined
  pc,                   \* where the current startRecording call is suspended
  snap,                 \* the state and totalDuration its closure captured
  mediaElements,        \* TRUE once the local mediaElements is assigned
  elems,                \* the media element loadMedia created for each slot
  frame,
  videoEncoder,         \* "undefined", "configured" or "closed"
  encodeQueue,          \* frames submitted and not yet emitted
  muxer,                \* chunks added, finalized
  encoded,              \* the frames passed to videoEncoder.encode, in order
  log,                  \* per-frame steps of the current render, in order
  reports,              \* values passed to setRenderProgress by the loop
  seekLog,              \* seekVideo calls of the current frame
  painted,              \* what the last compositing pass drew
  outcome,              \* how the most recently started render ended
  failure,              \* what made the current render fail: cause, url
  stopAt                \* where the loop was when stop was first requested

vars ==
  << state, isPlaying, renderStatus, renderProgress, renderError, recordedUrl,
     pendingQuality, lastRecordedQuality, stopRequestedRef, hasVideoEncoder,
     pc, snap, mediaElements, elems, frame, videoEncoder, encodeQueue, muxer,
     encoded, log, reports, seekLog, painted, outcome, failure, stopAt >>

\* ------------------------------------------------- configuration (pure part)

\* totalDuration: the sum of all timing values.
totalDuration(timing) ==
  timing.t1 + timing.t2 + timing.t3 + timing.t4 + timing.tHold + timing.t5
    + timing.t6 + timing.t7

FPS(quality) == IF quality = "high" THEN HighFPS ELSE StandardFPS
bitrate(quality) == IF quality = "high" THEN HighBitrate ELSE StandardBitrate

\* A frame count one past the whole frames: Math.floor(totalDuration * FPS) + 1.
TotalFramesPastEnd(dur, fps) == ((dur * fps) \div TicksPerSecond) + 1

\* Math.ceil(totalDuration * FPS), totalDuration being dur ticks.
totalFrames(dur, fps) == CeilDiv(dur * fps, TicksPerSecond)

\* t = frame / FPS, in ticks.
FrameTime(f, fps) == (f * TicksPerSecond) \div fps

\* (frame / totalFrames) * 100
ProgressValue(f, total) == JsTimes(JsDiv(f, total), Percent)

\* The loop reports progress on every 5th frame and on the last one.
ReportsProgress(f, total) == f % ProgressCadence = 0 \/ f = total

\* (frame * 1000000) / FPS
Timestamp(f, fps) == JsDiv(f * MicrosPerSecond, fps)

\* What the closure of one startRecording call captured.
Snapshot(st) == [state |-> st, totalDuration |-> totalDuration(st.timing)]

\* A frame rate read from the live configuration at every use.
LiveFPS(sn) == FPS(state.quality)

\* FPS and totalFrames as startRecording computes them from its closure.
SnapFPS(sn) == FPS(sn.state.quality)
SnapTotalFrames(sn) == totalFrames(sn.totalDuration, SnapFPS(sn))
IntroEnd(sn) == sn.state.timing.t1 + sn.state.timing.t2

\* ------------------------------------------------------ media synchronizer

\* endTime || video.duration (an unset endTime is 0).  loadMedia resolves a
\* video only once its duration is a finite number, so the Infinity / NaN
\* fallback of seekVideo is never taken.
EffectiveEndTime(endTime, duration) == IF endTime # 0 THEN endTime ELSE duration

\* A seekVideo that never clamps: startTime + elapsed for every trim.
SeekTargetUnclamped(startTime, endTime, loop, duration, elapsed) ==
  startTime + elapsed

\* targetTime of seekVideo.
SeekTarget(startTime, endTime, loop, duration, elapsed) ==
  LET effectiveEndTime == EffectiveEndTime(endTime, duration)
      segmentDuration == effectiveEndTime - startTime
  IN  IF segmentDuration > 0
      THEN IF loop # "false"
           THEN startTime + JsRem(elapsed, segmentDuration)
           ELSE Min(startTime + elapsed, effectiveEndTime)
      ELSE startTime

\* Math.abs(video.currentTime - targetTime) < 0.01
WithinSeekTolerance(currentTime, target) ==
  Abs(currentTime - target) * ToleranceScale < SeekTolerancePerCent * TicksPerSecond

\* The position a video element takes when currentTime is assigned.
ClampToMedia(target, duration) == Max(0, Min(target, duration))

\* Which slots the loop passes to seekVideo in a frame at time t.
SeeksSlotA(sn, t) == sn.state.slots["a"].type = "video" /\ t < IntroEnd(sn)
SeeksPanels(sn, t) == t >= sn.state.timing.t1
SyncSlots(sn, t) ==
  {s \in SlotIds :
     /\ sn.state.slots[s].type = "video"
     /\ IF s = "a" THEN SeeksSlotA(sn, t) ELSE SeeksPanels(sn, t)}

\* The elapsed argument of seekVideo: t for slot a, ct for the panels.
SyncElapsed(sn, s, t) == IF s = "a" THEN t ELSE t - IntroEnd(sn)

\* Which slots the compositor draws in a frame at time t.
DrawsIntro(sn, t) == t < IntroEnd(sn)
DrawsCollage(sn, t) == t >= IntroEnd(sn)
DrawnSlots(sn, t) ==
  (IF DrawsIntro(sn, t) THEN {"a"} ELSE {})
    \cup (IF DrawsCollage(sn, t) THEN PanelIds ELSE {})

\* A wait that ends with the first settled slot instead of the last.
AnySeekSettled(es) == \E s \in SlotIds : ~es[s].seeking

\* await Promise.all(syncPromises): every seek of the frame has resolved.
AllSeeksSettled(es) == \A s \in SlotIds : ~es[s].seeking

\* -------------------------------------------------------------- compositor

\* A layer value that the frame does not compute.
NotApplied == [k |-> "none", n |-> 0, d |-> 1]
NegInfinity == [k |-> "ninf", n |-> -1, d |-> 1]
One == Num(1, 1)

\* Math.min(x, 1) and Math.max(0, x): NaN stays NaN.
JsMin1(x) ==
  CASE x.k = "num" -> IF x.n <= x.d THEN x ELSE One
    [] x.k = "inf" -> One
    [] OTHER -> x
JsMax0(x) ==
  CASE x.k = "num" -> IF x.n >= 0 THEN x ELSE Num(0, 1)
    [] x.k = "ninf" -> Num(0, 1)
    [] OTHER -> x

\* 1 - x
OneMinus(x) ==
  CASE x.k = "num" -> Num(x.d - x.n, x.d)
    [] x.k = "inf" -> NegInfinity
    [] x.k = "ninf" -> Infinity
    [] OTHER -> x

\* Math.pow(x, 3)
Cube(x) == IF x.k = "num" THEN Num(x.n * x.n * x.n, x.d * x.d * x.d) ELSE x

\* Math.sin(x * Math.PI), by the parabola 4x(1 - x): it has the zeros 0 and 1,
\* the maximum 1 at 1/2 and the sign of the sine on [-1, 2]; NaN stays NaN.
SinPi(x) ==
  IF x.k = "num" THEN Num(4 * x.n * (x.d - x.n), x.d * x.d)
  ELSE NaN

\* An intro that starts to fade at time 0 instead of t1.
IntroOpacityFromStart(tm, t) ==
  JsMax0(OneMinus(JsDiv(t, tm.t1 + tm.t2)))

\* introOpacity
IntroOpacity(tm, t) ==
  IF t < tm.t1 THEN One ELSE JsMax0(OneMinus(JsDiv(t - tm.t1, tm.t2)))

\* kenBurns = 1 + (t / (t1 + t2)) * 0.05
KenBurns(tm, t) ==
  LET x == JsDiv(t, tm.t1 + tm.t2)
  IN  IF x.k = "num" THEN Num(KenBurnsDivisor * x.d + x.n, KenBurnsDivisor * x.d)
      ELSE x

\* entryProgress and ease
EntryProgress(tm, ct) == JsMin1(JsDiv(ct, tm.t3))
Ease(p) == OneMinus(Cube(OneMinus(p)))

\* bt and bDur of getBounce for the panel with delay stage * t4 / 3, both
\* multiplied by 3 to stay integers.
BounceTime(tm, ct, stage) == BounceStages * (ct - tm.t3) - stage * tm.t4
InBounce(tm, ct, stage) ==
  ~(BounceTime(tm, ct, stage) < 0 \/ BounceTime(tm, ct, stage) > tm.t4)

\* 1 + s * (bounceScale - 1)
Scaled(s, bounceScale) ==
  IF s.k = "num"
  THEN Num(Hundredths * s.d + s.n * (bounceScale - Hundredths), Hundredths * s.d)
  ELSE s

\* getBounce(delay)
GetBounce(tm, bounceScale, ct, stage) ==
  IF ~InBounce(tm, ct, stage) THEN One
  ELSE Scaled(SinPi(JsDiv(BounceTime(tm, ct, stage), tm.t4)), bounceScale)

\* The delay stage of each panel: 0, t4 / 3, (t4 / 3) * 2.
PanelStage(s) == CASE s = "b" -> 0 [] s = "c" -> 1 [] s = "d" -> 2

\* ot and overlayOpacity
OverlayTime(tm, ct) == ct - tm.t3 - tm.t4 - tm.tHold
OverlayOpacity(tm, ct) == JsMin1(JsDiv(OverlayTime(tm, ct), tm.t5))

\* ot of the earlier revision of startRecording, which has no tHold.
EarlierOverlayTime(tm, ct) == ct - tm.t3 - tm.t4

\* fadeOutStartTime and the alpha of the final fade
FadeOutStartTime(sn) == sn.totalDuration - sn.state.timing.t7
FadeOpacity(sn, t) ==
  JsMin1(JsDiv(t - FadeOutStartTime(sn), sn.state.timing.t7))

\* panelWidth = 1920 / 3, and the column of each panel.
PanelWidth == CanvasWidth \div PanelCount
PanelIndex(s) == CASE s = "b" -> 0 [] s = "c" -> 1 [] s = "d" -> 2

\* The rectangle of a panel that is not drawn.
NoRect == [x |-> NotApplied, y |-> NotApplied, w |-> NotApplied, h |-> NotApplied]

\* drawPanel of the earlier revision: the canvas size times scale, anchored
\* at the panel's centre.
DrawPanelEarlier(index, xOff, scale, dims) ==
  LET drawW == NumTimes(Num(CanvasWidth, 1), scale)
      drawH == NumTimes(Num(CanvasHeight, 1), scale)
      centerX == Num(2 * index * PanelWidth + PanelWidth, 2)
  IN  [x |-> NumMinus(centerX, NumTimes(drawW, Num(xOff, Percent))),
       y |-> NumTimes(NumMinus(Num(CanvasHeight, 1), drawH), Num(1, 2)),
       w |-> drawW, h |-> drawH]

\* drawPanel: the rectangle drawImage is called with (yOff is always 0).
\* NumOver divides by a positive number only, so the halving of the possibly
\* negative 1080 - drawH is written as a product with 1 / 2.
DrawPanel(index, xOff, scale, dims) ==
  LET mediaAspect == Num(dims.w, dims.h)
      panelAspect == Num(PanelWidth, CanvasHeight)
      wide == NumLess(panelAspect, mediaAspect)
      drawH == IF wide
               THEN NumTimes(Num(CanvasHeight, 1), scale)
               ELSE NumOver(NumTimes(Num(PanelWidth, 1), scale), mediaAspect)
      drawW == IF wide
               THEN NumTimes(drawH, mediaAspect)
               ELSE NumTimes(Num(PanelWidth, 1), scale)
      overflowX == NumMinus(drawW, Num(PanelWidth, 1))
  IN  [x |-> NumMinus(Num(index * PanelWidth, 1),
                      NumTimes(overflowX, Num(xOff, Percent))),
       y |-> NumTimes(NumMinus(Num(CanvasHeight, 1), drawH), Num(1, 2)),
       w |-> drawW, h |-> drawH]

\* Everything the compositing pass of the frame at time t applies.
Layers(sn, t) ==
  LET tm == sn.state.timing
      ct == t - IntroEnd(sn)
      intro == DrawsIntro(sn, t)
      collage == DrawsCollage(sn, t)
      entry == collage /\ ct < tm.t3
      bounce == collage /\ ~entry
      overlay == collage /\ OverlayTime(tm, ct) > 0
      fade == t > FadeOutStartTime(sn)
      scale == [s \in PanelIds |->
                  IF bounce
                  THEN GetBounce(tm, sn.state.animation.bounceScale, ct, PanelStage(s))
                  ELSE IF entry THEN One ELSE NotApplied]
  IN  [intro |-> intro,
       introOpacity |-> IF intro THEN IntroOpacity(tm, t) ELSE NotApplied,
       kenBurns |-> IF intro THEN KenBurns(tm, t) ELSE NotApplied,
       collage |-> collage,
       entry |-> entry,
       ease |-> IF entry THEN Ease(EntryProgress(tm, ct)) ELSE NotApplied,
       scale |-> scale,
       rect |-> [s \in PanelIds |->
                   IF collage
                   THEN DrawPanel(PanelIndex(s), sn.state.slots[s].xOffset, scale[s],
                                  sn.state.slots[s].dims)
                   ELSE NoRect],
       overlay |-> overlay,
       overlayOpacity |-> IF overlay THEN OverlayOpacity(tm, ct) ELSE NotApplied,
       fade |-> fade,
       fadeOpacity |-> IF fade THEN FadeOpacity(sn, t) ELSE NotApplied,
       zeroDivisions |->
         (IF intro /\ t >= tm.t1 /\ tm.t2 = 0 THEN {"introOpacity"} ELSE {})
           \cup (IF intro /\ tm.t1 + tm.t2 = 0 THEN {"kenBurns"} ELSE {})
           \cup (IF entry /\ tm.t3 = 0 THEN {"ease"} ELSE {})
           \cup {s \in PanelIds :
                   bounce /\ InBounce(tm, ct, PanelStage(s)) /\ tm.t4 = 0}
           \cup (IF overlay /\ tm.t5 = 0 THEN {"overlayOpacity"} ELSE {})
           \cup (IF fade /\ tm.t7 = 0 THEN {"fadeOpacity"} ELSE {})]

\* ---------------------------------------------------------------- messages

NoError == [kind |-> "null", detail |-> ""]
\* "Recording failed. Check your assets and try again."
GenericError == [kind |-> "generic", detail |-> ""]
\* t.browserWarning
CapabilityError == [kind |-> "capability", detail |-> ""]
\* `Encoder error: ${e.message}`
EncoderError == [kind |-> "encoder", detail |-> "fault"]

\* The URL a slot's media is loaded from.
SlotUrl(st, s) == st.slots[s].url

\* ------------------------------------------------- the world, as one record

World ==
  [state |-> state, isPlaying |-> isPlaying, renderStatus |-> renderStatus,
   renderProgress |-> renderProgress, renderError |-> renderError,
   recordedUrl |-> recordedUrl, pendingQuality |-> pendingQuality,
   lastRecordedQuality |-> lastRecordedQuality,
   stopRequestedRef |-> stopRequestedRef, pc |-> pc, snap |-> snap,
   mediaElements |-> mediaElements, elems |-> elems, frame |-> frame,
   videoEncoder |-> videoEncoder, encodeQueue |-> encodeQueue, muxer |-> muxer,
   encoded |-> encoded, log |-> log, reports |-> reports, seekLog |-> seekLog,
   painted |-> painted, outcome |-> outcome, failure |-> failure,
   stopAt |-> stopAt]

Becomes(w) ==
  \E v \in {w} :
    /\ state' = v.state
    /\ isPlaying' = v.isPlaying
    /\ renderStatus' = v.renderStatus
    /\ renderProgress' = v.renderProgress
    /\ renderError' = v.renderError
    /\ recordedUrl' = v.recordedUrl
    /\ pendingQuality' = v.pendingQuality
    /\ lastRecordedQuality' = v.lastRecordedQuality
    /\ stopRequestedRef' = v.stopRequestedRef
    /\ pc' = v.pc
    /\ snap' = v.snap
    /\ mediaElements' = v.mediaElements
    /\ elems' = v.elems
    /\ frame' = v.frame
    /\ videoEncoder' = v.videoEncoder
    /\ encodeQueue' = v.encodeQueue
    /\ muxer' = v.muxer
    /\ encoded' = v.encoded
    /\ log' = v.log
    /\ reports' = v.reports
    /\ seekLog' = v.seekLog
    /\ painted' = v.painted
    /\ outcome' = v.outcome
    /\ failure' = v.failure
    /\ stopAt' = v.stopAt
    /\ UNCHANGED hasVideoEncoder

Event(op, f) == [op |-> op, frame |-> f]

\* ------------------------------------------------ startRecording, by segment

\* el.pause(); el.src = ""; el.load(); el.remove() on one video element.
ReleaseElement(e) ==
  IF e.tag = "video" THEN [e EXCEPT !.released = TRUE, !.seeking = FALSE] ELSE e

\* finally: media cleanup, when mediaElements was assigned.
ReleaseMedia(w) ==
  IF w.mediaElements
  THEN [w EXCEPT !.elems = [s \in SlotIds |-> ReleaseElement(w.elems[s])]]
  ELSE w

\* The finally block, then the function returns.
Finally(w, result, cause, url) ==
  [ReleaseMedia(w) EXCEPT
     !.pc = "returned",
     !.outcome = result,
     !.failure = [cause |-> cause, url |-> url]]

\* A cleanup that calls close() whatever the encoder's state.
CloseEncoderUnguarded(w) ==
  IF w.videoEncoder # "undefined"
  THEN [w EXCEPT !.videoEncoder = "closed", !.encodeQueue = 0,
                 !.log = Append(@, Event("close", w.frame))]
  ELSE w

\* Cleanup on error / stop: close the encoder unless it is closed already.
CloseEncoder(w) ==
  IF w.videoEncoder = "configured"
  THEN [w EXCEPT !.videoEncoder = "closed", !.encodeQueue = 0,
                 !.log = Append(@, Event("close", w.frame))]
  ELSE w

\* A catch that does not tell the stop signal from a failure.
CatchStopAsFailure(w) ==
  Finally(CloseEncoder([w EXCEPT !.renderError = GenericError,
                                 !.renderStatus = "error",
                                 !.isPlaying = FALSE]),
          "cancelled", "stop", "")

\* A catch that forgets to reset the status on the stop signal.
CatchStopKeepsStatus(w) ==
  Finally(CloseEncoder([w EXCEPT !.isPlaying = FALSE]), "cancelled", "stop", "")

\* A loop that leaves on the stop signal with break: it goes on to the flush.
StopByBreak(w) ==
  IF w.videoEncoder = "configured"
  THEN [w EXCEPT !.pc = "flushing", !.log = Append(@, Event("flush", w.frame))]
  ELSE Finally([w EXCEPT !.renderError = GenericError, !.renderStatus = "error",
                         !.isPlaying = FALSE],
               "error", "flush", "")

\* catch (err), for the "Recording stopped by user" error.
CatchStop(w) ==
  Finally(CloseEncoder([w EXCEPT !.renderStatus = "idle", !.isPlaying = FALSE]),
          "cancelled", "stop", "")

\* catch (err), for every other error; cause and url only describe it.
CatchOther(w, cause, url) ==
  Finally(CloseEncoder([w EXCEPT !.renderError = GenericError,
                                 !.renderStatus = "error",
                                 !.isPlaying = FALSE]),
          "error", cause, url)

\* One seekVideo call on the element of slot s.
SeekRequest(w, s, f) ==
  LET t == FrameTime(f, SnapFPS(w.snap))
      slot == w.snap.state.slots[s]
      elapsed == SyncElapsed(w.snap, s, t)
      target == SeekTarget(slot.startTime, slot.endTime, slot.loop,
                           VideoDuration, elapsed)
  IN  [slot |-> s, frame |-> f, startTime |-> slot.startTime,
       endTime |-> slot.endTime,
       effectiveEndTime |-> EffectiveEndTime(slot.endTime, VideoDuration),
       loop |-> slot.loop, elapsed |-> elapsed, target |-> target,
       waited |-> ~WithinSeekTolerance(w.elems[s].currentTime, target)]

SeekElement(e, target) ==
  IF WithinSeekTolerance(e.currentTime, target)
  THEN e
  ELSE [e EXCEPT !.seeking = TRUE,
                 !.currentTime = ClampToMedia(target, VideoDuration)]

\* syncPromises of frame f.
IssueSeeks(w, f) ==
  LET sync == SyncSlots(w.snap, FrameTime(f, SnapFPS(w.snap)))
  IN  [w EXCEPT
         !.seekLog = {SeekRequest(w, s, f) : s \in sync},
         !.log = Append(@, Event("sync", f)),
         !.elems = [s \in SlotIds |->
                      IF s \in sync
                      THEN SeekElement(w.elems[s], SeekRequest(w, s, f).target)
                      ELSE w.elems[s]]]

\* The compositing pass of the current frame (which slots it samples).
Paint(w) ==
  LET drawn == DrawnSlots(w.snap, FrameTime(w.frame, SnapFPS(w.snap)))
      synced == {r.slot : r \in {q \in w.seekLog : q.frame = w.frame}}
  IN  [w EXCEPT
         !.painted =
            [frame |-> w.frame, drawn |-> drawn,
             layers |-> Layers(w.snap, FrameTime(w.frame, SnapFPS(w.snap))),
             unsynced |-> {s \in drawn :
                             /\ w.elems[s].tag = "video"
                             /\ (w.elems[s].seeking \/ s \notin synced)}],
         !.log = Append(@, Event("paint", w.frame))]

\* new VideoFrame(...); videoEncoder.encode(...); then await the next
\* animation frame.  encode throws on a closed encoder.
Encode(w) ==
  IF w.videoEncoder = "configured"
  THEN [w EXCEPT
          !.encoded = Append(@, [frame |-> w.frame,
                                 timestamp |-> Timestamp(w.frame, SnapFPS(w.snap))]),
          !.encodeQueue = @ + 1,
          !.log = Append(@, Event("submit", w.frame)),
          !.pc = "yield"]
  ELSE CatchOther(w, "encode", "")

PaintAndEncode(w) == Bind(Bind(w, Paint), Encode)

\* A loop that advances by two frames.
SkipFrame(f) == f + 2

\* The next frame index after frame f.
NextFrame(f) == f + 1

\* The loop body of frame f up to its first suspension.
BeginFrame(w, f) ==
  IF w.stopRequestedRef
  THEN CatchStop([w EXCEPT !.frame = f, !.log = Append(@, Event("stopped", f))])
  ELSE
    LET total == SnapTotalFrames(w.snap)
        w1 == [w EXCEPT !.frame = f, !.log = Append(@, Event("check", f))]
        w2 == IF ReportsProgress(f, total)
              THEN [w1 EXCEPT !.renderProgress = ProgressValue(f, total),
                              !.reports = Append(@, ProgressValue(f, total))]
              ELSE w1
        w3 == IssueSeeks(w2, f)
    IN  Bind(w3, LAMBDA v : IF AllSeeksSettled(v.elems)
                            THEN PaintAndEncode(v)
                            ELSE [v EXCEPT !.pc = "seeking"])

\* A finalization that finalizes the muxer before it closes the encoder.
FinalizeBeforeClose(w) ==
  LET w1 == [w EXCEPT
               !.videoEncoder = "closed",
               !.muxer = [@ EXCEPT !.finalized = TRUE],
               !.log = @ \o << Event("finalize", w.frame), Event("close", w.frame) >>,
               !.recordedUrl = "blob",
               !.renderStatus = "completed",
               !.isPlaying = FALSE]
  IN  Finally(w1, "completed", "none", "")

\* videoEncoder.close(); muxer.finalize(); the blob URL; status completed.
Finalize(w) ==
  LET w1 == [w EXCEPT
               !.videoEncoder = "closed",
               !.muxer = [@ EXCEPT !.finalized = TRUE],
               !.log = @ \o << Event("close", w.frame), Event("finalize", w.frame) >>,
               !.recordedUrl = "blob",
               !.renderStatus = "completed",
               !.isPlaying = FALSE]
  IN  Finally(w1, "completed", "none", "")

\* A loop exit that finalizes without awaiting the flush.
FinalizeUnflushed(w) == Finalize(w)

\* After the loop: await videoEncoder.flush(), which rejects on a closed encoder.
BeginFlush(w) ==
  IF w.videoEncoder = "configured"
  THEN [w EXCEPT !.pc = "flushing", !.log = Append(@, Event("flush", w.frame))]
  ELSE CatchOther(w, "flush", "")

\* INITIAL_STATE.animation
InitialAnimation == [bounceScale |-> BounceScaleDefault]

\* INITIAL_STATE.slots; dims is the natural size of the file behind url.
InitialXOffset(s) ==
  CASE s = "a" -> XOffsetA [] s = "b" -> XOffsetB [] s = "c" -> XOffsetC
    [] s = "d" -> XOffsetD
InitialSlots ==
  [s \in SlotIds |->
     [url |-> s \o ".png", type |-> "image", startTime |-> 0, endTime |-> 0,
      loop |-> "undefined", xOffset |-> InitialXOffset(s),
      dims |-> [w |-> CanvasWidth, h |-> CanvasHeight]]]

\* The locals of a call that has not started or has returned.
NoElements ==
  [s \in SlotIds |->
     [tag |-> "img", released |-> FALSE, seeking |-> FALSE, currentTime |-> 0]]
NoSnapshot ==
  Snapshot([slots |-> InitialSlots, timing |-> TimingZero, quality |-> "standard",
            animation |-> InitialAnimation])
NothingPainted == [frame |-> -1, drawn |-> {}, layers |-> << >>, unsynced |-> {}]
NoFailure == [cause |-> "none", url |-> ""]
NewMuxer == [chunks |-> 0, finalized |-> FALSE, frameRate |-> 0, bitrate |-> 0]

\* A start that leaves stopRequestedRef as the previous render left it.
BeginRenderKeepsStop(w) ==
       [w EXCEPT
          !.renderStatus = "rendering",
          !.renderProgress = Num(0, 1),
          !.renderError = NoError,
          !.recordedUrl = "null",
          !.isPlaying = TRUE,
          !.lastRecordedQuality = w.state.quality,
          !.pc = "loading",
          !.snap = Snapshot(w.state),
          !.mediaElements = FALSE,
          !.elems = [s \in SlotIds |->
                       [tag |-> IF w.state.slots[s].type = "video"
                                THEN "video" ELSE "img",
                        released |-> FALSE, seeking |-> FALSE, currentTime |-> 0]],
          !.frame = 0,
          !.videoEncoder = "undefined",
          !.encodeQueue = 0,
          !.muxer = NewMuxer,
          !.encoded = << >>,
          !.log = << >>,
          !.reports = << >>,
          !.seekLog = {},
          !.painted = NothingPainted,
          !.outcome = "running",
          !.failure = NoFailure,
          !.stopAt = "none"]

\* startRecording past its checks: the state reset, the locals and the loads.
BeginRender(w) ==
       [w EXCEPT
          !.renderStatus = "rendering",
          !.renderProgress = Num(0, 1),
          !.renderError = NoError,
          !.recordedUrl = "null",
          !.isPlaying = TRUE,
          !.lastRecordedQuality = w.state.quality,
          !.stopRequestedRef = FALSE,
          !.pc = "loading",
          !.snap = Snapshot(w.state),
          !.mediaElements = FALSE,
          !.elems = [s \in SlotIds |->
                       [tag |-> IF w.state.slots[s].type = "video"
                                THEN "video" ELSE "img",
                        released |-> FALSE, seeking |-> FALSE, currentTime |-> 0]],
          !.frame = 0,
          !.videoEncoder = "undefined",
          !.encodeQueue = 0,
          !.muxer = NewMuxer,
          !.encoded = << >>,
          !.log = << >>,
          !.reports = << >>,
          !.seekLog = {},
          !.painted = NothingPainted,
          !.outcome = "running",
          !.failure = NoFailure,
          !.stopAt = "none"]

\* An entry that never looks for window.VideoEncoder.
StartUnchecked(w) == BeginRender(w)

\* Entry of startRecording, up to await Promise.all(loadMedia ...).
\* canvasRef.current is set whenever the component is mounted.
StartRecording(w) ==
  IF ~hasVideoEncoder
  THEN [w EXCEPT !.renderError = CapabilityError, !.renderStatus = "error"]
  ELSE BeginRender(w)

\* Where the render is when a stop request arrives.
StopPosition(w) ==
  IF w.pc = "loading" THEN "loading"
  ELSE IF w.pc \in {"seeking", "yield"} /\ w.frame < SnapTotalFrames(w.snap)
       THEN "mid"
       ELSE "last"

\* The continuation of await Promise.all(...): context, muxer, encoder, frame 0.
AfterLoad(w, ctxOk) ==
  LET w1 == [w EXCEPT !.mediaElements = TRUE]
  IN  IF ~ctxOk
      THEN CatchOther(w1, "ctx", "")
      ELSE BeginFrame([w1 EXCEPT
                         !.videoEncoder = "configured",
                         !.muxer = [@ EXCEPT
                                      !.frameRate = SnapFPS(w.snap),
                                      !.bitrate = bitrate(w.snap.state.quality)]],
                      0)

\* A loop that stops before frame totalFrames.
AfterYieldExclusive(w) ==
  IF NextFrame(w.frame) < SnapTotalFrames(w.snap)
  THEN BeginFrame(w, NextFrame(w.frame))
  ELSE BeginFlush(w)

\* The continuation of the per-frame requestAnimationFrame wait.
AfterYield(w) ==
  IF NextFrame(w.frame) <= SnapTotalFrames(w.snap)
  THEN BeginFrame(w, NextFrame(w.frame))
  ELSE BeginFlush(w)

\* The encoder keeps up: a frame is encoded only when its queue has room.
CanAcceptFrame == videoEncoder # "configured" \/ encodeQueue < MaxEncodeQueue

\* The call has returned: its locals are gone.
DropLocals(w) ==
  [w EXCEPT
     !.pc = "idle", !.snap = NoSnapshot, !.mediaElements = FALSE,
     !.elems = NoElements, !.frame = 0, !.videoEncoder = "undefined",
     !.encodeQueue = 0, !.muxer = NewMuxer, !.encoded = << >>, !.log = << >>,
     !.reports = << >>, !.seekLog = {}, !.painted = NothingPainted,
     !.failure = NoFailure, !.stopAt = "none"]

\* ------------------------------------------------------------------ actions

\* pc = "returned" is the instant at which startRecording returns; no other
\* event is handled in it.
Returned == pc = "returned"

Return ==
  /\ Returned
  /\ Becomes(DropLocals(World))

\* The quality confirmation dialog covers the whole window while it is open.
ModalOpen == pendingQuality # "null"

\* A toggle that starts a render whether or not one is playing.
ToggleAlwaysStarts ==
  /\ ~Returned
  /\ ~ModalOpen
  /\ Becomes(StartRecording(World))

TogglePlayback ==
  /\ ~Returned
  /\ ~ModalOpen
  /\ IF isPlaying
     THEN Becomes([World EXCEPT
                     !.stopRequestedRef = TRUE,
                     !.stopAt = IF @ = "none" THEN StopPosition(World) ELSE @])
     ELSE Becomes(StartRecording(World))

\* Every loadMedia promise has resolved.
LoadsResolved ==
  /\ pc = "loading"
  /\ \E ctxOk \in BOOLEAN : Becomes(AfterLoad(World, ctxOk))

\* The load of one slot fails first: Promise.all rejects with its string.
LoadRejected ==
  /\ pc = "loading"
  /\ \E s \in SlotIds : Becomes(CatchOther(World, "load", SlotUrl(snap.state, s)))

\* The seeked event of one video element.
Seeked ==
  /\ pc = "seeking"
  /\ CanAcceptFrame
  /\ \E s \in SlotIds :
       /\ elems[s].seeking
       /\ LET w1 == [World EXCEPT !.elems[s].seeking = FALSE]
          IN  Becomes(IF AllSeeksSettled(w1.elems) THEN PaintAndEncode(w1) ELSE w1)

\* The requestAnimationFrame callback.
AnimationFrame ==
  /\ pc = "yield"
  /\ CanAcceptFrame
  /\ Becomes(AfterYield(World))

\* The flush promise resolves once every submitted frame was emitted.
FlushResolved ==
  /\ pc = "flushing"
  /\ videoEncoder = "configured"
  /\ encodeQueue = 0
  /\ Becomes(Finalize(World))

\* The encoder's output callback: muxer.addVideoChunk.
EncoderOutput ==
  /\ videoEncoder = "configured"
  /\ encodeQueue > 0
  /\ Becomes([World EXCEPT !.encodeQueue = @ - 1, !.muxer.chunks = @ + 1])

\* The encoder closes itself on a fault and calls the error callback; a
\* pending flush rejects.
EncoderFault ==
  /\ videoEncoder = "configured"
  /\ LET w1 == [World EXCEPT !.videoEncoder = "closed", !.encodeQueue = 0,
                             !.renderError = EncoderError,
                             !.log = Append(@, Event("fault", frame))]
     IN  Becomes(IF pc = "flushing" THEN CatchOther(w1, "flush", "") ELSE w1)

Merge(prev, data) ==
  [k \in DOMAIN prev |-> IF k \in DOMAIN data THEN data[k] ELSE prev[k]]

VideoCount(slots) == Cardinality({s \in SlotIds : slots[s].type = "video"})

\* What the asset picker passes when a video file is chosen for a slot.
SlotInputs(s) ==
  { [url |-> s \o ".webm", type |-> "video", startTime |-> 0, endTime |-> VideoDuration] }

HandleUpdateSlots ==
  /\ ~Returned
  /\ \E s \in SlotIds : \E data \in SlotInputs(s) :
       LET slots == [state.slots EXCEPT ![s] = Merge(@, data)]
       IN  /\ VideoCount(slots) <= MaxVideos
           /\ Becomes([World EXCEPT !.state.slots = slots])

HandleUpdateTiming ==
  /\ ~Returned
  /\ \E timing \in TimingInputs :
       Becomes([World EXCEPT !.state.timing = Merge(@, timing)])

HandleUpdateQuality ==
  /\ ~Returned
  /\ \E quality \in Qualities :
       /\ state.quality # quality
       /\ IF recordedUrl # "null"
          THEN Becomes([World EXCEPT !.pendingQuality = quality])
          ELSE Becomes([World EXCEPT !.state.quality = quality])

ConfirmQualityChange ==
  /\ ~Returned
  /\ pendingQuality # "null"
  /\ Becomes([World EXCEPT
                !.state.quality = pendingQuality,
                !.recordedUrl = "null",
                !.renderStatus = "idle",
                !.renderProgress = Num(0, 1),
                !.pendingQuality = "null"])

CancelQualityChange ==
  /\ ~Returned
  /\ pendingQuality # "null"
  /\ Becomes([World EXCEPT !.pendingQuality = "null"])

\* The dismiss button of the error banner.
DismissError ==
  /\ ~Returned
  /\ renderStatus = "error"
  /\ Becomes([World EXCEPT !.renderStatus = "idle"])

\* Everything but the configuration, after the component has mounted.
Mounted ==
  /\ isPlaying = FALSE
  /\ renderStatus = "idle"
  /\ renderProgress = Num(0, 1)
  /\ renderError = NoError
  /\ recordedUrl = "null"
  /\ pendingQuality = "null"
  /\ lastRecordedQuality = "null"
  /\ stopRequestedRef = FALSE
  /\ pc = "idle"
  /\ snap = NoSnapshot
  /\ mediaElements = FALSE
  /\ elems = NoElements
  /\ frame = 0
  /\ videoEncoder = "undefined"
  /\ encodeQueue = 0
  /\ muxer = NewMuxer
  /\ encoded = << >>
  /\ log = << >>
  /\ reports = << >>
  /\ seekLog = {}
  /\ painted = NothingPainted
  /\ outcome = "none"
  /\ failure = NoFailure
  /\ stopAt = "none"

Init ==
  /\ state \in {[slots |-> InitialSlots, timing |-> tm, quality |-> "standard",
                   animation |-> InitialAnimation] :
                  tm \in TimingInputs}
  /\ hasVideoEncoder \in BOOLEAN
  /\ Mounted

Next ==
  \/ TogglePlayback
  \/ Return
  \/ LoadsResolved
  \/ LoadRejected
  \/ Seeked
  \/ AnimationFrame
  \/ FlushResolved
  \/ EncoderOutput
  \/ EncoderFault
  \/ HandleUpdateSlots
  \/ HandleUpdateTiming
  \/ HandleUpdateQuality
  \/ ConfirmQualityChange
  \/ CancelQualityChange
  \/ DismissError

Spec == Init /\ [][Next]_vars

\* ------------------------------------------- renders of one trimmed video

\* The trim sliders move in steps of 0.1 s.
TrimStep == TicksPerSecond \div 10
TrimValues == {k * TrimStep : k \in 0..MaxTrim}

\* slot.loop as seekVideo reads it: unset, true or false.
LoopValues == {"undefined", "true", "false"}

\* The sliders keep startTime within 0..(endTime || 60) and endTime at or
\* above startTime, so startTime exceeds endTime only while endTime is 0.
TrimReachable(startTime, endTime) == endTime = 0 \/ startTime <= endTime

\* One slot holding a video with the given trim, the others still images.
TrimmedSlot(s, startTime, endTime, loop) ==
  [InitialSlots EXCEPT
     ![s] = [@ EXCEPT !.url = s \o ".webm", !.type = "video",
                      !.startTime = startTime, !.endTime = endTime, !.loop = loop]]

TrimmedSlots ==
  {TrimmedSlot(c[1], c[2], c[3], c[4]) :
     c \in {x \in SlotIds \X TrimValues \X (TrimValues \cup {VideoDuration})
                     \X LoopValues : TrimReachable(x[2], x[3])}}

\* A mounted component whose one video slot has been trimmed.
InitSeek ==
  /\ state \in {[slots |-> sl, timing |-> TimingShort, quality |-> q,
                   animation |-> InitialAnimation] :
                  sl \in TrimmedSlots, q \in Qualities}
  /\ hasVideoEncoder = TRUE
  /\ Mounted

\* Renders of that configuration, without further edits or faults.
NextSeek ==
  \/ TogglePlayback
  \/ Return
  \/ LoadsResolved
  \/ Seeked
  \/ AnimationFrame
  \/ FlushResolved
  \/ EncoderOutput

SpecSeek == InitSeek /\ [][NextSeek]_vars

\* --------------------------------------------- renders of one timing plan

\* {t1: 2, t2: 0.5, t3: 0.5, t4: 1.5, tHold: 1, t5: 1, t6: 2.5, t7: 0}
ScenarioTiming ==
  [t1 |-> 2 * TicksPerSecond, t2 |-> TicksPerSecond \div 2,
   t3 |-> TicksPerSecond \div 2, t4 |-> (3 * TicksPerSecond) \div 2,
   tHold |-> TicksPerSecond, t5 |-> TicksPerSecond,
   t6 |-> (5 * TicksPerSecond) \div 2, t7 |-> 0]

\* Every plan whose phases are either skipped or PhaseTicks long, and the
\* scenario above.
FrameTimings == [TimingKeys -> {0, PhaseTicks}] \cup {ScenarioTiming}

BounceScales == {BounceScaleMin, BounceScaleDefault, BounceScaleMax}

\* A mounted component showing the initial images under one timing plan.
InitFrame ==
  /\ state \in {[slots |-> InitialSlots, timing |-> tm, quality |-> q,
                   animation |-> [bounceScale |-> bs]] :
                  tm \in FrameTimings, q \in Qualities, bs \in BounceScales}
  /\ hasVideoEncoder = TRUE
  /\ Mounted

\* Renders of that plan, without edits, load failures or encoder faults.
NextFrameStep ==
  \/ TogglePlayback
  \/ Return
  \/ LoadsResolved
  \/ AnimationFrame
  \/ FlushResolved
  \/ EncoderOutput

SpecFrame == InitFrame /\ [][NextFrameStep]_vars

\* ------------------------------------------ renders of one panel layout

\* xOffset values the crop selector reports: whole per cents from 0 to 100.
XOffsets == {(Percent * k) \div OffsetSteps : k \in 0..OffsetSteps}

\* Natural sizes of uploaded files: landscape, portrait, exactly one panel
\* wide, and square.
MediaSizes ==
  {[w |-> CanvasWidth, h |-> CanvasHeight], [w |-> CanvasHeight, h |-> CanvasWidth],
   [w |-> PanelWidth, h |-> CanvasHeight], [w |-> CanvasHeight, h |-> CanvasHeight]}

\* An intro, an entry and a bounce whose bumps peak on a frame.
PanelTiming ==
  [TimingZero EXCEPT !.t1 = PhaseTicks, !.t3 = PhaseTicks, !.t4 = 2 * PhaseTicks]

\* The three panels showing files of one size, cropped at one position.
PanelSlots(xOff, dims) ==
  [s \in SlotIds |->
     IF s \in PanelIds
     THEN [InitialSlots[s] EXCEPT !.xOffset = xOff, !.dims = dims]
     ELSE InitialSlots[s]]

InitPanel ==
  /\ state \in {[slots |-> PanelSlots(xOff, dims), timing |-> PanelTiming,
                   quality |-> q, animation |-> [bounceScale |-> bs]] :
                  xOff \in XOffsets, dims \in MediaSizes, q \in Qualities,
                  bs \in BounceScales}
  /\ hasVideoEncoder = TRUE
  /\ Mounted

\* Renders of that layout, without edits, load failures or encoder faults.
NextPanel ==
  \/ TogglePlayback
  \/ Return
  \/ LoadsResolved
  \/ AnimationFrame
  \/ FlushResolved
  \/ EncoderOutput

SpecPanel == InitPanel /\ [][NextPanel]_vars

\* ------------------------------- renders whose waits all come to an end

\* The initial images, or one untrimmed video among them.
LiveSlots ==
  {InitialSlots} \cup {TrimmedSlot(s, 0, VideoDuration, "undefined") : s \in SlotIds}

InitLive ==
  /\ state \in {[slots |-> sl, timing |-> tm, quality |-> q,
                   animation |-> InitialAnimation] :
                  sl \in LiveSlots, tm \in TimingInputs, q \in Qualities}
  /\ hasVideoEncoder \in BOOLEAN
  /\ Mounted

NextLive ==
  \/ TogglePlayback
  \/ Return
  \/ LoadsResolved
  \/ LoadRejected
  \/ Seeked
  \/ AnimationFrame
  \/ FlushResolved
  \/ EncoderOutput
  \/ EncoderFault
  \/ DismissError

\* The event loop runs a callback that is ready: a load settling, a seeked
\* event, an animation frame, an encoder output, the flush resolving, the
\* return.  The user and the encoder's faults are under no obligation.
Settle ==
  \/ LoadsResolved
  \/ LoadRejected
  \/ Seeked
  \/ AnimationFrame
  \/ EncoderOutput
  \/ FlushResolved
  \/ Return

Fairness == WF_vars(Settle)

SpecLive == InitLive /\ [][NextLive]_vars /\ Fairness

\* ------------------------------------------------------------------ claims

VideoSlots == {s \in SlotIds : elems[s].tag = "video"}
AllVideosReleased == \A s \in VideoSlots : elems[s].released
Position(op, f) == {i \in 1..Len(log) : log[i] = Event(op, f)}
Before(op1, op2, f) ==
  \E i \in Position(op1, f) : \E j \in Position(op2, f) : i < j
Hundred == Num(Percent, 1)
Zero == Num(0, 1)

\* C1 (as stated): when a stop was requested while the loop was at a frame
\* k < totalFrames, the render ends with status idle, without a recorded URL
\* and with every video element released.
C1_StopEndsIdle ==
  (Returned /\ stopAt = "mid") =>
    /\ renderStatus = "idle"
    /\ recordedUrl = "null"
    /\ AllVideosReleased

\* C1 (amended): when a stop was requested while the loop was at a frame
\* k < totalFrames, the render never completes, exposes no recorded URL and
\* releases every video element; it ends with status idle, except when the
\* encoder has failed and the submission of frame k throws before the next
\* per-frame check, in which case it ends with status error.
C1_StopEndsIdleOrEncodeError ==
  (Returned /\ stopAt = "mid") =>
    /\ recordedUrl = "null"
    /\ AllVideosReleased
    /\ outcome # "completed"
    /\ failure.cause \in {"stop", "encode"}
    /\ failure.cause = "stop" => (renderStatus = "idle" /\ outcome = "cancelled")
    /\ failure.cause = "encode" =>
         (renderStatus = "error" /\ painted.frame = frame /\ videoEncoder = "closed")

C1_Witness ==
  /\ Returned
  /\ stopAt = "mid"
  /\ renderStatus = "idle"
  /\ frame > 1
  /\ \E s \in VideoSlots : elems[s].released

C3_ProgressMonotoneTo100 ==
  /\ \A i \in 1..(Len(reports) - 1) : NumLeq(reports[i], reports[i + 1])
  /\ Position("check", SnapTotalFrames(snap)) # {} =>
       NumEq(reports[Len(reports)], Hundred)

\* C4 (as stated): the progress value is always a number between 0 and 100.
C4_ProgressInRange ==
  /\ IsNumber(renderProgress)
  /\ NumLeq(Zero, renderProgress)
  /\ NumLeq(renderProgress, Hundred)

\* C5: frames reach the encoder one at a time, as frame 0, 1, 2, ... without
\* gap or repetition and with strictly increasing timestamps
\* frame * 1000000 / FPS; each frame is synchronized, then composited, then
\* submitted, and no step of frame n + 1 happens before frame n is submitted.
C5_FramesInOrder ==
  /\ \A i \in 1..Len(encoded) :
       /\ encoded[i].frame = i - 1
       /\ NumEq(encoded[i].timestamp, Num((i - 1) * MicrosPerSecond, SnapFPS(snap)))
  /\ \A i \in 1..(Len(encoded) - 1) :
       NumLess(encoded[i].timestamp, encoded[i + 1].timestamp)
  /\ \A i \in 1..(Len(log) - 1) : log[i].frame <= log[i + 1].frame
  /\ \A i \in 1..Len(log) :
       /\ log[i].op = "submit" =>
            /\ Before("sync", "paint", log[i].frame)
            /\ Before("paint", "submit", log[i].frame)
            /\ Cardinality(Position("submit", log[i].frame)) = 1
       /\ log[i].frame > 0 => Position("submit", log[i].frame - 1) # {}

C5_Witness ==
  /\ Len(encoded) > 3
  /\ pc = "seeking"

\* C6: whenever the compositor has painted a frame, every video slot it drew
\* had been passed to seekVideo in that frame, had no seek pending and stood
\* at the position its target for that frame resolves to.
C6_PaintAfterSeeks ==
  /\ painted.unsynced = {}
  /\ \A s \in painted.drawn :
       (pc = "yield" /\ elems[s].tag = "video") =>
         \E r \in seekLog :
           /\ r.slot = s
           /\ r.frame = painted.frame
           /\ elems[s].currentTime = ClampToMedia(r.target, VideoDuration)

C6_Witness ==
  /\ pc = "yield"
  /\ painted.frame = frame
  /\ \E r \in seekLog : r.waited /\ r.slot \in painted.drawn
  /\ Cardinality({r \in seekLog : r.waited}) > 1

\* C7 (as stated): every target a looping slot with endTime > startTime is
\* sought to is startTime + (elapsed mod segmentDuration) and lies in
\* [startTime, endTime).
C7_LoopTargetInWindow ==
  \A r \in seekLog :
    (r.loop # "false" /\ r.endTime > r.startTime) =>
      /\ r.target = r.startTime + (r.elapsed % (r.endTime - r.startTime))
      /\ r.startTime <= r.target
      /\ r.target < r.endTime

\* C8 (as stated): every target a slot with loop disabled is sought to is
\* min(startTime + elapsed, endTime), taking the source's duration for an
\* unset endTime; it never exceeds that end and equals it once
\* startTime + elapsed has reached it.
C8_ClampTargetAtEnd ==
  \A r \in seekLog :
    r.loop = "false" =>
      /\ r.target = Min(r.startTime + r.elapsed, r.effectiveEndTime)
      /\ r.target <= r.effectiveEndTime
      /\ r.startTime + r.elapsed >= r.effectiveEndTime =>
           r.target = r.effectiveEndTime

\* C8 (amended): for a slot with loop disabled whose effective end time
\* (endTime, or the source's duration when endTime is unset) is greater than
\* startTime, every target is min(startTime + elapsed, effective end time),
\* never exceeds it and equals it once startTime + elapsed has reached it;
\* when the effective end time is not greater than startTime, every target
\* is startTime.
C8_ClampTargetInProperWindow ==
  \A r \in seekLog :
    r.loop = "false" =>
      IF r.effectiveEndTime > r.startTime
      THEN /\ r.target = Min(r.startTime + r.elapsed, r.effectiveEndTime)
           /\ r.target <= r.effectiveEndTime
           /\ r.startTime + r.elapsed >= r.effectiveEndTime =>
                r.target = r.effectiveEndTime
      ELSE r.target = r.startTime

C8_Witness ==
  /\ pc = "yield"
  /\ \E r \in seekLog :
       /\ r.loop = "false"
       /\ r.frame = frame
       /\ r.effectiveEndTime > r.startTime
       /\ r.startTime + r.elapsed > r.effectiveEndTime
       /\ r.target = r.effectiveEndTime

\* C9 (as stated): when a render ends, whatever its outcome, every video
\* element loadMedia created for it has been released.
C9_VideosReleasedAtEnd == Returned => AllVideosReleased

\* C10 (as stated): when a media source fails to load, the render ends in
\* status error and the error message names the URL of that source.
C10_LoadErrorNamesUrl ==
  (Returned /\ failure.cause = "load") =>
    /\ renderStatus = "error"
    /\ renderError.detail = failure.url

\* Positions of the events of one kind in the log of the render.
Events(op) == {i \in 1..Len(log) : log[i].op = op}
Faulted == Events("fault") # {}

\* C11 (as stated): when the encoder has reported a fault during a render, no
\* frame is composited or submitted after the fault, the render ends in
\* status error, and the message held at its end is the encoder's.
C11_FaultAbortsWithDetail ==
  /\ \A i \in Events("fault") : \A j \in Events("paint") \cup Events("submit") : j < i
  /\ (Returned /\ Faulted) =>
       /\ renderStatus = "error"
       /\ renderError = EncoderError

\* C12: a render that failed or was cancelled after its encoder was created
\* ends with the encoder closed; close is called at most once and never
\* after the encoder closed itself on a fault; no frame is submitted after
\* the encoder closed, and an encode that throws ends the render in the
\* iteration of the frame it was called for, without submitting it.
C12_EncoderClosedOnce ==
  /\ (Returned /\ outcome \in {"error", "cancelled"} /\ videoEncoder # "undefined") =>
       videoEncoder = "closed"
  /\ Cardinality(Events("close")) <= 1
  /\ \A i \in Events("fault") : \A j \in Events("close") : j < i
  /\ \A i \in Events("fault") \cup Events("close") : \A j \in Events("submit") : j < i
  /\ failure.cause = "encode" =>
       /\ Returned
       /\ Position("check", frame) # {}
       /\ Position("submit", frame) = {}

C12_Witness ==
  /\ Returned
  /\ failure.cause = "encode"
  /\ Faulted
  /\ frame > 0
  /\ videoEncoder = "closed"

\* C13: without window.VideoEncoder a start only sets status error and the
\* capability message: progress and the recorded URL keep their values, the
\* status is never rendering, and no load, snapshot, encoder or muxer exists.
C13_CapabilityFailFast ==
  /\ [](~hasVideoEncoder =>
          /\ renderStatus # "rendering"
          /\ pc = "idle"
          /\ ~isPlaying
          /\ snap = NoSnapshot
          /\ elems = NoElements
          /\ videoEncoder = "undefined"
          /\ muxer = NewMuxer)
  /\ [][(~hasVideoEncoder /\ TogglePlayback) =>
          /\ renderStatus' = "error"
          /\ renderError' = CapabilityError
          /\ renderProgress' = renderProgress
          /\ recordedUrl' = recordedUrl]_vars

C13_Witness ==
  /\ ~hasVideoEncoder
  /\ renderStatus = "error"
  /\ renderError = CapabilityError
  /\ VideoCount(state.slots) > 0

\* What a render in flight has computed so far agrees with its snapshot.
FromSnapshot ==
  LET fps == FPS(snap.state.quality)
  IN  /\ \A i \in 1..Len(encoded) :
           encoded[i].timestamp = Timestamp(encoded[i].frame, fps)
      /\ \A r \in seekLog :
           /\ snap.state.slots[r.slot].type = "video"
           /\ r.startTime = snap.state.slots[r.slot].startTime
           /\ r.endTime = snap.state.slots[r.slot].endTime
           /\ r.loop = snap.state.slots[r.slot].loop
           /\ r.elapsed = SyncElapsed(snap, r.slot, FrameTime(r.frame, fps))
      /\ frame <= totalFrames(snap.totalDuration, fps)
      /\ snap.totalDuration = totalDuration(snap.state.timing)
      /\ videoEncoder # "undefined" =>
           (muxer.frameRate = fps /\ muxer.bitrate = bitrate(snap.state.quality))
      /\ (Returned /\ outcome = "completed") =>
           Len(encoded) = totalFrames(snap.totalDuration, fps) + 1

\* C14: the snapshot a render works from is the configuration at its start,
\* no configuration handler changes it while the render is in flight, and
\* every timestamp, seek, frame count and encoder setting of the render is
\* computed from it.
C14_SnapshotFixed ==
  /\ [][(pc = "idle" /\ pc' = "loading") => snap' = Snapshot(state)]_vars
  /\ [][(pc # "idle" /\ pc' # "idle") => snap' = snap]_vars
  /\ [](pc # "idle" => FromSnapshot)

C14_Witness ==
  /\ pc = "yield"
  /\ frame > 1
  /\ state.timing # snap.state.timing
  /\ state.quality # snap.state.quality
  /\ state.slots # snap.state.slots
  /\ seekLog # {}

\* The values the compositing pass of the painted frame applied.
AppliedValues ==
  LET L == painted.layers
  IN  ({L.introOpacity, L.kenBurns, L.ease, L.overlayOpacity, L.fadeOpacity}
         \cup {L.scale[s] : s \in PanelIds}) \ {NotApplied}
InUnit(x) == x = NotApplied \/ (NumLeq(Zero, x) /\ NumLeq(x, One))

\* C15 (as stated): no value a painted frame applies comes from a division
\* by a zero duration, every applied value is a number, and a phase of
\* duration 0 shows as finished: overlay and final fade at 1, bounce scale 1.
C15_NoZeroDivision ==
  painted.frame >= 0 =>
    LET L == painted.layers
        tm == snap.state.timing
    IN  /\ L.zeroDivisions = {}
        /\ \A x \in AppliedValues : IsNumber(x)
        /\ (L.overlay /\ tm.t5 = 0) => NumEq(L.overlayOpacity, One)
        /\ (L.fade /\ tm.t7 = 0) => NumEq(L.fadeOpacity, One)
        /\ (L.collage /\ tm.t4 = 0) => \A s \in PanelIds : NumEq(L.scale[s], One)

\* C16 (as stated): in every painted frame the intro opacity, the entry
\* ease, the overlay opacity and the final-fade opacity lie in [0, 1] and
\* each panel's scale lies in [1, bounceScale].
C16_ValuesInRange ==
  painted.frame >= 0 =>
    LET L == painted.layers
    IN  /\ InUnit(L.introOpacity)
        /\ InUnit(L.ease)
        /\ InUnit(L.overlayOpacity)
        /\ InUnit(L.fadeOpacity)
        /\ \A s \in PanelIds :
             L.scale[s] # NotApplied =>
               /\ NumLeq(One, L.scale[s])
               /\ NumLeq(L.scale[s], Num(snap.state.animation.bounceScale, Hundredths))

\* C17: totalFrames is the ceiling of totalDuration * FPS, and a render that
\* completes has submitted exactly the frames 0..totalFrames, the last one
\* with the timestamp totalFrames / FPS seconds, so that first and last
\* timestamp span totalFrames / FPS.
C17_FrameCount ==
  pc # "idle" =>
    LET fps == FPS(snap.state.quality)
        total == SnapTotalFrames(snap)
        need == snap.totalDuration * fps
    IN  /\ total * TicksPerSecond >= need
        /\ (total - 1) * TicksPerSecond < need
        /\ (Returned /\ outcome = "completed") =>
             /\ Len(encoded) = total + 1
             /\ {encoded[i].frame : i \in 1..Len(encoded)} = 0..total
             /\ encoded[Len(encoded)].timestamp = Num(total * MicrosPerSecond, fps)
             /\ encoded[1].timestamp = Num(0, fps)

C17_Witness ==
  /\ Returned
  /\ outcome = "completed"
  /\ SnapTotalFrames(snap) * TicksPerSecond > snap.totalDuration * SnapFPS(snap)
  /\ Len(encoded) > 3

\* The frame the compositor painted last lies before / at the end of t1.
PaintedTime == FrameTime(painted.frame, SnapFPS(snap))
ScenarioTotals ==
  (pc # "idle" /\ snap.state.timing = ScenarioTiming
     /\ snap.state.quality = "standard") =>
    /\ snap.totalDuration = 9 * TicksPerSecond
    /\ SnapTotalFrames(snap) = 270
    /\ SnapFPS(snap) = 30
IntroAlone ==
  (painted.frame >= 0 /\ PaintedTime < snap.state.timing.t1) =>
    LET L == painted.layers
    IN  /\ painted.drawn = {"a"}
        /\ L.intro
        /\ NumEq(L.introOpacity, One)
        /\ ~L.collage
        /\ ~L.overlay
        /\ ~L.fade
        /\ painted.frame = 0 => NumEq(L.kenBurns, One)

\* C18 (as stated): the scenario timing at standard quality gives
\* totalDuration 9.0 s and 270 frames at 30 fps; every frame with t < t1
\* draws only slot a, at opacity 1, without collage, overlay or fade, with
\* zoom 1 at frame 0; and at the frame with t = t1 the intro opacity is 1.
C18_IntroPhase ==
  /\ ScenarioTotals
  /\ IntroAlone
  /\ (painted.frame >= 0 /\ PaintedTime = snap.state.timing.t1) =>
       NumEq(painted.layers.introOpacity, One)

\* C18 (amended): as above, but at the frame with t = t1 the intro opacity is
\* 1 when t2 > 0; when t2 = 0 that frame draws no intro layer at all, only
\* the collage.
C18_IntroPhaseWithFade ==
  /\ ScenarioTotals
  /\ IntroAlone
  /\ (painted.frame >= 0 /\ PaintedTime = snap.state.timing.t1) =>
       IF snap.state.timing.t2 > 0
       THEN NumEq(painted.layers.introOpacity, One)
       ELSE /\ ~painted.layers.intro
            /\ painted.layers.introOpacity = NotApplied
            /\ painted.layers.collage
            /\ painted.drawn = PanelIds

C18_Witness ==
  /\ pc = "yield"
  /\ snap.state.timing = ScenarioTiming
  /\ snap.state.quality = "standard"
  /\ painted.frame = 60
  /\ PaintedTime = snap.state.timing.t1
  /\ NumEq(painted.layers.introOpacity, One)

\* C19 (as stated): a render that ended on the user's stop request leaves
\* status idle and no error message, whatever the encoder's callbacks did.
C19_StopLeavesNoError ==
  (Returned /\ failure.cause = "stop") =>
    /\ renderStatus = "idle"
    /\ renderError = NoError

\* C20: a render that entered status rendering eventually leaves it; when it
\* ends its status is the one of completed, error and idle that matches how
\* it ended; and neither completed nor a cancelled end is reached from a
\* status other than rendering.
C20_RenderTerminates ==
  /\ (renderStatus = "rendering") ~> (renderStatus # "rendering")
  /\ [](Returned =>
          /\ renderStatus \in {"completed", "error", "idle"}
          /\ renderStatus = "completed" <=> outcome = "completed"
          /\ renderStatus = "idle" <=> outcome = "cancelled"
          /\ renderStatus = "error" <=> outcome = "error")
  /\ [][(renderStatus' = "completed" /\ renderStatus # "completed") =>
          renderStatus = "rendering"]_vars
  /\ [][(pc # "returned" /\ pc' = "returned" /\ outcome' = "cancelled") =>
          renderStatus = "rendering"]_vars
  /\ [](pc \notin {"idle", "returned"} => renderStatus = "rendering")

C20_Witness ==
  /\ Returned
  /\ renderStatus = "completed"
  /\ frame > 2
  /\ VideoSlots # {}

\* C21 (as stated): every seekVideo call of a frame is for slot a only while
\* t < t1 + t2 and for a panel only while t >= t1 + t2, and the slot it is
\* for is one the compositor draws in that frame.
C21_SeeksOnlyDrawn ==
  \A r \in seekLog :
    LET t == FrameTime(r.frame, SnapFPS(snap))
    IN  /\ r.slot = "a" => t < IntroEnd(snap)
        /\ r.slot \in PanelIds => t >= IntroEnd(snap)
        /\ r.slot \in DrawnSlots(snap, t)

\* The per-frame check that observed the stop flag, and what followed it.
StopObserved == Events("stopped") # {}
NothingAfterStop ==
  /\ Cardinality(Events("stopped")) <= 1
  /\ \A i \in Events("stopped") : \A j \in (i + 1)..Len(log) : log[j].op = "close"
  /\ StopObserved =>
       /\ Returned
       /\ outcome = "cancelled"
       /\ ~muxer.finalized
       /\ recordedUrl = "null"
       /\ Events("flush") = {}
       /\ Events("finalize") = {}

\* While the flag is set no per-frame check passes: the next check a render
\* makes is the one that observes it.
NextCheckObserves ==
  (stopRequestedRef /\ pc \in {"loading", "seeking", "yield"} /\ Len(log') > Len(log)) =>
    /\ \A i \in (Len(log) + 1)..Len(log') : log'[i].op # "check"
    /\ frame' # frame => (pc' = "returned" /\ log'[Len(log) + 1].op = "stopped")

\* C22 (as stated): once a per-frame check has observed the stop flag, the
\* render does nothing more but close the encoder and end cancelled, without
\* flush or finalize; a flag set before a check is observed by that check;
\* and a render whose first stop request came after the check of its final
\* frame completes.
C22_StopAtNextCheck ==
  /\ []NothingAfterStop
  /\ [][NextCheckObserves]_vars
  /\ []((Returned /\ stopAt = "last") => outcome = "completed")

\* C22 (amended): as above, but a render whose first stop request came after
\* the check of its final frame is never cancelled by it: it completes,
\* unless the encoder fails, in which case it ends in status error.
C22_StopAtNextCheckOrLate ==
  /\ []NothingAfterStop
  /\ [][NextCheckObserves]_vars
  /\ []((Returned /\ stopAt = "last") =>
          /\ outcome \in {"completed", "error"}
          /\ outcome = "error" => (Faulted /\ renderStatus = "error")
          /\ outcome = "completed" => renderStatus = "completed")

C22_Witness ==
  /\ Returned
  /\ stopAt = "mid"
  /\ StopObserved
  /\ frame > 1
  /\ Events("close") # {}
  /\ VideoSlots # {}

\* The muxer was finalized by this render: after the flush was awaited and
\* every submitted frame emitted, and after the encoder was closed.
FinalizedInOrder ==
  muxer.finalized =>
    /\ Events("flush") # {}
    /\ \A i \in Events("flush") : \A j \in Events("close") : i < j
    /\ \A i \in Events("close") : \A j \in Events("finalize") : i < j
    /\ \A i \in Events("submit") : \A j \in Events("flush") : i < j
    /\ Cardinality(Events("finalize")) = 1
    /\ videoEncoder = "closed"
    /\ muxer.chunks = Len(encoded)
    /\ renderStatus = "completed" \/ ~Returned

BumpIndex(s) == CASE s = "b" -> 0 [] s = "c" -> 1 [] s = "d" -> 2
InBumpWindow(tm, ct, s) ==
  /\ BounceStages * (ct - tm.t3) >= BumpIndex(s) * tm.t4
  /\ BounceStages * (ct - tm.t3) < (BumpIndex(s) + 1) * tm.t4

\* C24 (as stated): in every painted collage frame a panel outside its own
\* bump window has scale exactly 1, and at most one panel has a scale
\* different from 1.
C24_PanelsPulseInTurn ==
  (painted.frame >= 0 /\ painted.layers.collage) =>
    LET tm == snap.state.timing
        ct == PaintedTime - IntroEnd(snap)
        L == painted.layers
    IN  /\ \A s \in PanelIds : ~InBumpWindow(tm, ct, s) => NumEq(L.scale[s], One)
        /\ Cardinality({s \in PanelIds : ~NumEq(L.scale[s], One)}) <= 1

\* C25 (as stated): a painted frame whose collage-local time lies in
\* [t3 + t4, t3 + t4 + tHold) draws all three panels at scale exactly 1 and
\* no overlay; an overlay is drawn only when ct > t3 + t4 + tHold; and with
\* tHold = 0 the overlay is the one of the revision without a hold phase.
C25_HoldShowsPanelsOnly ==
  (painted.frame >= 0 /\ painted.layers.collage) =>
    LET tm == snap.state.timing
        ct == PaintedTime - IntroEnd(snap)
        L == painted.layers
        holdStart == tm.t3 + tm.t4
    IN  /\ (holdStart <= ct /\ ct < holdStart + tm.tHold) =>
             /\ \A s \in PanelIds : NumEq(L.scale[s], One)
             /\ ~L.overlay
             /\ L.overlayOpacity = NotApplied
        /\ L.overlay => ct > holdStart + tm.tHold
        /\ tm.tHold = 0 =>
             /\ L.overlay <=> EarlierOverlayTime(tm, ct) > 0
             /\ L.overlay =>
                  L.overlayOpacity = JsMin1(JsDiv(EarlierOverlayTime(tm, ct), tm.t5))

\* C26 (as stated): a painted frame is covered by the final-fade rectangle
\* only when totalDuration - t7 < t, with opacity
\* min((t - (totalDuration - t7)) / t7, 1); and with t7 = 0 no painted frame
\* is covered by it.
C26_FadeOnlyInLastT7 ==
  painted.frame >= 0 =>
    LET t7 == snap.state.timing.t7
        since == PaintedTime - (snap.totalDuration - t7)
        L == painted.layers
    IN  /\ L.fade => since > 0
        /\ (L.fade /\ t7 > 0) =>
             L.fadeOpacity = IF since <= t7 THEN Num(since, t7) ELSE One
        /\ ~L.fade => L.fadeOpacity = NotApplied
        /\ t7 = 0 => ~L.fade

\* The rectangle a painted collage frame drew panel s into, and the panel.
PanelLeft(s) == Num(PanelIndex(s) * PanelWidth, 1)
PanelRight(s) == Num((PanelIndex(s) + 1) * PanelWidth, 1)
RectRight(r) == NumPlus(r.x, r.w)
RectBottom(r) == NumPlus(r.y, r.h)

\* C27: in every painted collage frame, for every panel drawn with a scale
\* >= 1, the rectangle keeps the source's aspect ratio and its left edge is
\* panelLeft - (drawWidth - panelWidth) * xOffset / 100: at the panel's left
\* edge for xOffset = 0, with the right edges aligned for xOffset = 100, and
\* for every xOffset the rectangle covers the panel from edge to edge.
C27_PanelCovered ==
  (painted.frame >= 0 /\ painted.layers.collage) =>
    \A s \in PanelIds :
      LET r == painted.layers.rect[s]
          scale == painted.layers.scale[s]
          slot == snap.state.slots[s]
      IN  NumLeq(One, scale) =>
            /\ NumEq(NumTimes(r.w, Num(slot.dims.h, 1)), NumTimes(r.h, Num(slot.dims.w, 1)))
            /\ r.x = NumMinus(PanelLeft(s),
                              NumTimes(NumMinus(r.w, Num(PanelWidth, 1)),
                                       Num(slot.xOffset, Percent)))
            /\ slot.xOffset = 0 => r.x = PanelLeft(s)
            /\ slot.xOffset = Percent => RectRight(r) = PanelRight(s)
            /\ NumLeq(r.x, PanelLeft(s))
            /\ NumLeq(PanelRight(s), RectRight(r))
            /\ NumLeq(r.y, Zero)
            /\ NumLeq(Num(CanvasHeight, 1), RectBottom(r))

C27_Witness ==
  /\ pc = "yield"
  /\ painted.frame = frame
  /\ painted.layers.collage
  /\ \E s \in PanelIds :
       /\ NumLess(One, painted.layers.scale[s])
       /\ snap.state.slots[s].xOffset = Percent
       /\ snap.state.slots[s].dims.w < snap.state.slots[s].dims.h
       /\ NumLess(painted.layers.rect[s].x, PanelLeft(s))
       /\ RectRight(painted.layers.rect[s]) = PanelRight(s)

\* The frames the loop of the current render has begun, and their times.
LoopFrames == {log[i].frame : i \in Events("check") \cup Events("stopped")}
WholeFrames == (snap.totalDuration * SnapFPS(snap)) % TicksPerSecond = 0

\* C28 (as stated): every frame the loop begins has a time t = frame / FPS
\* with 0 <= t <= totalDuration.
C28_FrameTimeWithinDuration ==
  \A f \in LoopFrames :
    /\ 0 <= FrameTime(f, SnapFPS(snap))
    /\ FrameTime(f, SnapFPS(snap)) <= snap.totalDuration

\* C28 (amended): every frame the loop begins has 0 <= t < totalDuration +
\* 1 / FPS; t <= totalDuration for every frame but the last, and for the
\* last one too when totalDuration * FPS is a whole number; otherwise the
\* last frame, totalFrames, lies after totalDuration.
C28_FrameTimeWithinOneFrame ==
  \A f \in LoopFrames :
    LET fps == SnapFPS(snap)
        t == FrameTime(f, fps)
    IN  /\ 0 <= f /\ f <= SnapTotalFrames(snap)
        /\ 0 <= t
        /\ t * fps < snap.totalDuration * fps + TicksPerSecond
        /\ (f < SnapTotalFrames(snap) \/ WholeFrames) => t <= snap.totalDuration
        /\ (f = SnapTotalFrames(snap) /\ ~WholeFrames) => t > snap.totalDuration

C28_Witness ==
  /\ pc = "yield"
  /\ ~WholeFrames
  /\ frame = SnapTotalFrames(snap)
  /\ frame \in LoopFrames
  /\ frame > 2
  /\ FrameTime(frame, SnapFPS(snap)) > snap.totalDuration

\* A startRecording call is suspended at one of its awaits.
InFlight == pc \notin {"idle", "returned"}

\* C29: isPlaying and status rendering hold exactly while a startRecording
\* call is in flight; a render starts, and an encoder is created, only when
\* none is in flight; and a toggle during a render changes nothing but the
\* stop flag.
C29_OneRenderInFlight ==
  /\ [](isPlaying <=> InFlight)
  /\ [](renderStatus = "rendering" <=> InFlight)
  /\ [](videoEncoder = "configured" => InFlight)
  /\ [][(pc' = "loading" /\ pc # "loading") =>
          /\ pc = "idle"
          /\ ~isPlaying
          /\ renderStatus # "rendering"
          /\ videoEncoder = "undefined"]_vars
  /\ [][(videoEncoder' = "configured" /\ videoEncoder # "configured") =>
          (videoEncoder = "undefined" /\ pc = "loading")]_vars
  /\ [][(InFlight /\ TogglePlayback) =>
          /\ stopRequestedRef'
          /\ UNCHANGED << state, isPlaying, renderStatus, renderProgress, renderError,
                          recordedUrl, pendingQuality, lastRecordedQuality, pc, snap,
                          mediaElements, elems, frame, videoEncoder, encodeQueue,
                          muxer, encoded, log, reports, seekLog, painted, outcome,
                          failure >>]_vars

C29_Witness ==
  /\ InFlight
  /\ stopRequestedRef
  /\ stopAt = "mid"
  /\ pc = "seeking"
  /\ frame > 1
  /\ videoEncoder = "configured"

\* A stop request left over from a render that it came too late to cancel.
StaleStop == pc = "idle" /\ stopRequestedRef

\* C30: a start clears the stop flag, also when a request that came after the
\* final check of the previous render has left it set; while a render is in
\* flight the flag is set only if a stop was requested during that render;
\* and a render ends cancelled only on a request made after its start and
\* before the check of its final frame.
C30_StopBelongsToItsRender ==
  /\ [][(pc = "idle" /\ pc' = "loading") => (~stopRequestedRef' /\ stopAt' = "none")]_vars
  /\ [][(StaleStop /\ TogglePlayback) => ~stopRequestedRef']_vars
  /\ []((InFlight /\ stopRequestedRef) => stopAt # "none")
  /\ []((InFlight /\ stopAt = "none") => ~stopRequestedRef)
  /\ []((Returned /\ outcome = "cancelled") => stopAt \in {"loading", "mid"})
  /\ []((Returned /\ stopAt = "none") => outcome \in {"completed", "error"})

C30_Witness ==
  /\ StaleStop
  /\ renderStatus = "completed"
  /\ recordedUrl # "null"
  /\ outcome = "completed"

====
